---- MODULE Spec2Model ----
(***************************************************************************)
(* Model of the gbx-header crate: parse_from_buffer (src/gbx/parser.rs),   *)
(* and the two XML attribute decoders parse_challenge_header_xml           *)
(* (src/gbx/parser/challenge.rs) and parse_replay_xml                      *)
(* (src/gbx/parser/replay.rs) with the enum conversions of src/gbx/mod.rs. *)
(*                                                                         *)
(* Bytes are integers 0..255, buffers are sequences of bytes.  Indexes     *)
(* and ranges are the code's 0-based ones; Slice converts to TLA+.         *)
(* Text (attribute values, error messages) is a sequence of one-character  *)
(* strings, so that lower-casing, number parsing and message formatting    *)
(* are computed, not assumed.                                              *)
(***************************************************************************)
EXTENDS Integers, Sequences, FiniteSets, TLC

VARIABLES buffer, gbx, events, challenge, replay, shown, from_file

vars == <<buffer, gbx, events, challenge, replay, shown, from_file>>

\* ------------------------------------------------------------------ bounds
MaxSegments == 3
MaxEvents == 2

\* ------------------------------------------------------- generic helpers
None == <<>>
Some(x) == <<x>>
IsSome(o) == o # None
Unwrap(o) == o[1]

Ok(v) == [tag |-> "Ok", val |-> v]
Err(e) == [tag |-> "Err", err |-> e]
Panic(at) == [tag |-> "Panic", at |-> at]
NotCalled == [tag |-> "NotCalled"]

\* buffer[a..b] of the code (0-based, end exclusive)
Slice(buf, a, b) == SubSeq(buf, a + 1, b)

\* ------------------------------------------------------ parser.rs tokens
HEADER_START_TOKEN == <<60, 104, 101, 97, 100, 101, 114, 32>>
HEADER_END_TOKEN == <<60, 47, 104, 101, 97, 100, 101, 114, 62>>
THUMBNAIL_START_TOKEN == <<255, 216, 255>>
THUMBNAIL_END_TOKEN == <<255, 217>>
GBX_MAGIC == <<71, 66, 88>>

\* variant: the highest index of a match
find_window_last(buf, needle) ==
  LET n == Len(needle)
      hits == {i \in 0..(Len(buf) - n) :
                 \A k \in 1..n : buf[i + k] = needle[k]}
  IN IF hits = {} THEN None
     ELSE Some(CHOOSE i \in hits : \A j \in hits : i >= j)

\* buf.windows(n).position(|w| w == needle): lowest 0-based index of a match
find_window(buf, needle) ==
  LET n == Len(needle)
      hits == {i \in 0..(Len(buf) - n) :
                 \A k \in 1..n : buf[i + k] = needle[k]}
  IN IF hits = {} THEN None
     ELSE Some(CHOOSE i \in hits : \A j \in hits : i <= j)

u16_from_le_bytes(b) == b[1] + 256 * b[2]
\* a u32 is kept as its two 16-bit halves <<high, low>> (value high*2^16+low)
u32_from_le_bytes(b) == <<b[3] + 256 * b[4], b[1] + 256 * b[2]>>

\* std::str::from_utf8 validity, as String::from_utf8(..) checks it
RECURSIVE utf8_valid_from(_, _)
utf8_valid_from(b, i) ==
  LET n == Len(b)
      cont(k) == k <= n /\ b[k] >= 128 /\ b[k] <= 191
      rng(k, lo, hi) == k <= n /\ b[k] >= lo /\ b[k] <= hi
  IN IF i > n THEN TRUE
     ELSE IF b[i] < 128 THEN utf8_valid_from(b, i + 1)
     ELSE IF b[i] >= 194 /\ b[i] <= 223
       THEN cont(i + 1) /\ utf8_valid_from(b, i + 2)
     ELSE IF b[i] = 224
       THEN rng(i + 1, 160, 191) /\ cont(i + 2) /\ utf8_valid_from(b, i + 3)
     ELSE IF b[i] = 237
       THEN rng(i + 1, 128, 159) /\ cont(i + 2) /\ utf8_valid_from(b, i + 3)
     ELSE IF b[i] >= 225 /\ b[i] <= 239
       THEN cont(i + 1) /\ cont(i + 2) /\ utf8_valid_from(b, i + 3)
     ELSE IF b[i] = 240
       THEN rng(i + 1, 144, 191) /\ cont(i + 2) /\ cont(i + 3)
            /\ utf8_valid_from(b, i + 4)
     ELSE IF b[i] >= 241 /\ b[i] <= 243
       THEN cont(i + 1) /\ cont(i + 2) /\ cont(i + 3)
            /\ utf8_valid_from(b, i + 4)
     ELSE IF b[i] = 244
       THEN rng(i + 1, 128, 143) /\ cont(i + 2) /\ cont(i + 3)
            /\ utf8_valid_from(b, i + 4)
     ELSE FALSE

from_utf8_ok(b) == utf8_valid_from(b, 1)

\* usize subtraction a - b: panics with overflow checks on (debug profile),
\* wraps modulo 2^64 with them off (release profile).  The wrapped value
\* 2^64 - (b - a) is written Wrapped(b - a).
Wrapped(d) == [wrapped_2_64_minus |-> d]
usize_sub(a, b, overflow_checks) ==
  IF a >= b THEN Some(a - b)
  ELSE IF overflow_checks THEN None
  ELSE Some(Wrapped(b - a))

\* GBXOrigin::Buffer and GBXOrigin::File { path }
GBXOrigin_Buffer == [kind |-> "Buffer"]
GBXOrigin_File(path) == [kind |-> "File", path |-> path]

\* variant: the magic is compared first, with a comparison that is simply
\* false on a buffer too short to hold it
read_binary_prefix_magic_first(buf) ==
  IF Len(buf) < 3 \/ Slice(buf, 0, 3) # GBX_MAGIC THEN Err("MissingGBXMagic")
  ELSE IF Len(buf) < 5 THEN Panic("slice 3..5 out of range")
  ELSE IF Len(buf) < 13 THEN Panic("slice 9..13 out of range")
  ELSE Ok([version |-> u16_from_le_bytes(Slice(buf, 3, 5)),
           class_id |-> u32_from_le_bytes(Slice(buf, 9, 13))])

\* variant: only the first two bytes of the magic are compared
read_binary_prefix_two_bytes(buf) ==
  IF Len(buf) < 3 THEN Err("FileTooShort")
  ELSE IF Slice(buf, 0, 2) # Slice(GBX_MAGIC, 0, 2) THEN Err("MissingGBXMagic")
  ELSE IF Len(buf) < 5 THEN Panic("slice 3..5 out of range")
  ELSE IF Len(buf) < 13 THEN Panic("slice 9..13 out of range")
  ELSE Ok([version |-> u16_from_le_bytes(Slice(buf, 3, 5)),
           class_id |-> u32_from_le_bytes(Slice(buf, 9, 13))])

\* the head of parse_from_buffer: length check, magic check, binary header
read_binary_prefix(buf) ==
  IF Len(buf) < 3 THEN Err("FileTooShort")
  ELSE IF Slice(buf, 0, 3) # GBX_MAGIC THEN Err("MissingGBXMagic")
  ELSE IF Len(buf) < 5 THEN Panic("slice 3..5 out of range")
  ELSE IF Len(buf) < 13 THEN Panic("slice 9..13 out of range")
  ELSE Ok([version |-> u16_from_le_bytes(Slice(buf, 3, 5)),
           class_id |-> u32_from_le_bytes(Slice(buf, 9, 13))])

\* parse_from_buffer.  overflow_checks is the build profile's setting;
\* header_ok is whether parse_header_xml returned Ok on the header slice
\* (its value is dropped by header.ok(), only presence survives).
parse_from_buffer(buf, overflow_checks, header_ok) ==
  IF read_binary_prefix(buf).tag # "Ok" THEN read_binary_prefix(buf)
  ELSE
  LET binary_header == read_binary_prefix(buf).val
      header_start == find_window(buf, HEADER_START_TOKEN)
      he_found == find_window(buf, HEADER_END_TOKEN)
      header_end == IF IsSome(he_found)
                    THEN Some(Unwrap(he_found) + Len(HEADER_END_TOKEN))
                    ELSE None
      thumbnail_start == find_window(buf, THUMBNAIL_START_TOKEN)
      te_found == find_window(buf, THUMBNAIL_END_TOKEN)
      thumbnail_end == IF IsSome(te_found)
                       THEN Some(Unwrap(te_found) + Len(THUMBNAIL_END_TOKEN))
                       ELSE None
      hs == IF IsSome(header_start) THEN Unwrap(header_start) ELSE 0
      he == IF IsSome(header_end) THEN Unwrap(header_end) ELSE 0
      both_header == IsSome(header_start) /\ IsSome(header_end)
      both_thumb == IsSome(thumbnail_start) /\ IsSome(thumbnail_end)
      header_xml == IF both_header THEN Slice(buf, hs, he) ELSE <<>>
      header_length == usize_sub(he, hs, overflow_checks)
  IN IF both_header /\ hs > he THEN Panic("slice hs..he start after end")
     ELSE IF ~from_utf8_ok(header_xml) THEN Panic("from_utf8 unwrap")
     ELSE IF both_thumb /\ Unwrap(thumbnail_start) > Unwrap(thumbnail_end)
       THEN Panic("slice ts..te start after end")
     ELSE IF header_length = None THEN Panic("he - hs overflow")
     ELSE Ok([origin |-> GBXOrigin_Buffer,
              filesize |-> Len(buf),
              header_length |-> Unwrap(header_length),
              header_start |-> hs,
              thumbnail_length |->
                IF both_thumb
                THEN Some(Unwrap(thumbnail_end) - Unwrap(thumbnail_start))
                ELSE None,
              thumbnail_start |-> thumbnail_start,
              thumbnail |->
                IF both_thumb
                THEN Some(Slice(buf, Unwrap(thumbnail_start),
                                Unwrap(thumbnail_end)))
                ELSE None,
              header |-> both_header /\ header_ok,
              header_xml |-> header_xml,
              bin_header |-> binary_header])

\* ------------------------------------------------------- input buffers
RECURSIVE Concat(_)
Concat(ss) == IF ss = <<>> THEN <<>> ELSE Head(ss) \o Concat(Tail(ss))

SeqsUpTo(S, n) == UNION {[1..k -> S] : k \in 0..n}

\* bytes 3..12: format version (3..4), four opaque bytes, class id (9..12)
BinFields == {<<6, 0, 0, 0, 0, 0, 0, 48, 4, 3>>,
              <<6, 0, 0, 0, 0, 0, 255, 255, 255, 255>>}
Heads == {GBX_MAGIC \o f : f \in BinFields}
           \cup {GBX_MAGIC, <<71, 66, 120>> \o <<6, 0, 0, 0, 0, 0, 0, 48, 4, 3>>}
Segments == {HEADER_START_TOKEN, HEADER_END_TOKEN,
             THUMBNAIL_START_TOKEN, THUMBNAIL_END_TOKEN, <<97>>}
FullBuffers == {h \o Concat(ss) : h \in Heads, ss \in SeqsUpTo(Segments, MaxSegments)}
\* every file and every truncation of it
Buffers == UNION {{SubSeq(b, 1, n) : n \in 0..Len(b)} : b \in FullBuffers}

\* ------------------------------------------------------------ actions
ParseFromBuffer ==
  /\ gbx = NotCalled
  /\ \E overflow_checks \in BOOLEAN, header_ok \in BOOLEAN :
       gbx' = parse_from_buffer(buffer, overflow_checks, header_ok)
  /\ UNCHANGED <<buffer, events, challenge, replay, shown, from_file>>

\* ------------------------------------------------------------------ text
\* str::to_lowercase on the characters used here (ASCII letters)
UPPER == <<"A", "B", "C", "D", "E", "F", "G", "H", "I", "J", "K", "L", "M",
           "N", "O", "P", "Q", "R", "S", "T", "U", "V", "W", "X", "Y", "Z">>
LOWER == <<"a", "b", "c", "d", "e", "f", "g", "h", "i", "j", "k", "l", "m",
           "n", "o", "p", "q", "r", "s", "t", "u", "v", "w", "x", "y", "z">>
char_to_lowercase(c) ==
  IF \E k \in 1..26 : UPPER[k] = c
  THEN LOWER[CHOOSE k \in 1..26 : UPPER[k] = c]
  ELSE c
to_lowercase(s) == [i \in 1..Len(s) |-> char_to_lowercase(s[i])]

DIGITS == <<"0", "1", "2", "3", "4", "5", "6", "7", "8", "9">>
is_digit(c) == \E k \in 1..10 : DIGITS[k] = c
to_digit(c) == (CHOOSE k \in 1..10 : DIGITS[k] = c) - 1

\* core::num from_str (radix 10) with its checked multiply/add (or subtract
\* for a negative number).  max_div10/max_mod10 are MAX/10 and MAX%10 of the
\* type, min_mod10 is -(MIN%10).  Exact for every text whose value is below
\* 2^31 in magnitude or outside the type's range.
RECURSIVE parse_digits(_, _, _, _, _)
parse_digits(ds, acc, positive, max_div10, last_digit) ==
  IF ds = <<>> THEN Ok(acc)
  ELSE IF ~is_digit(Head(ds)) THEN Err("InvalidDigit")
  ELSE LET d == to_digit(Head(ds))
       IN IF positive
          THEN IF acc > max_div10 \/ (acc = max_div10 /\ d > last_digit)
               THEN Err("PosOverflow")
               ELSE parse_digits(Tail(ds), acc * 10 + d, positive,
                                 max_div10, last_digit)
          ELSE IF acc < -max_div10 \/ (acc = -max_div10 /\ d > last_digit)
               THEN Err("NegOverflow")
               ELSE parse_digits(Tail(ds), acc * 10 - d, positive,
                                 max_div10, last_digit)

from_str_int(src, is_signed_ty, max_div10, max_mod10, min_mod10) ==
  IF src = <<>> THEN Err("Empty")
  ELSE IF Head(src) \in {"+", "-"} /\ Len(src) = 1 THEN Err("InvalidDigit")
  ELSE IF Head(src) = "+"
    THEN parse_digits(Tail(src), 0, TRUE, max_div10, max_mod10)
  ELSE IF Head(src) = "-" /\ is_signed_ty
    THEN parse_digits(Tail(src), 0, FALSE, max_div10, min_mod10)
  ELSE parse_digits(src, 0, TRUE, max_div10, max_mod10)

\* u32::from_str / str::parse::<u32>: MAX = 4294967295
u32_from_str(src) == from_str_int(src, FALSE, 429496729, 5, 0)
\* i32::from_str: MAX = 2147483647, MIN = -2147483648
i32_from_str(src) == from_str_int(src, TRUE, 214748364, 7, 8)

\* ? with map_err(ParseError::HeaderValueError)
HeaderValueError(kind) == [name |-> "HeaderValueError", payload |-> kind]
HeaderTryIntoEnumError(msg) == [name |-> "HeaderTryIntoEnumError", payload |-> msg]
XMLParseError == [name |-> "XMLParseError", payload |-> <<>>]
HeaderNotFound == [name |-> "HeaderNotFound", payload |-> <<>>]

\* ------------------------------------------------ mod.rs enum conversions
\* variant: the message carries the lower-cased text
MapType_try_from_lowered(value) ==
  IF to_lowercase(value) = <<"c", "h", "a", "l", "l", "e", "n", "g", "e">> THEN Ok("Challenge")
  ELSE Err(<<"U", "n", "k", "n", "o", "w", "n", " ", "m", "a", "p", " ", "t", "y", "p", "e", ":", " ">> \o to_lowercase(value))

MapType_try_from(value) ==
  IF to_lowercase(value) = <<"c", "h", "a", "l", "l", "e", "n", "g", "e">> THEN Ok("Challenge")
  ELSE Err(<<"U", "n", "k", "n", "o", "w", "n", " ", "m", "a", "p", " ", "t", "y", "p", "e", ":", " ">> \o value)

GBXVersion_try_from(value) ==
  IF to_lowercase(value) = <<"t", "m", "c", ".", "6">> THEN Ok("TMc6")
  ELSE IF to_lowercase(value) = <<"t", "m", "r", ".", "7">> THEN Ok("TMr7")
  ELSE Err(<<"U", "n", "k", "n", "o", "w", "n", " ", "m", "a", "p", " ", "v", "e", "r", "s", "i", "o", "n", ":", " ">> \o value)

Environment_try_from(value) ==
  IF to_lowercase(value) = <<"s", "t", "a", "d", "i", "u", "m">> THEN Ok("Stadium")
  ELSE Err(<<"U", "n", "k", "n", "o", "w", "n", " ", "e", "n", "v", "i", "r", "o", "n", "m", "e", "n", "t", ":", " ">> \o value)

Mood_try_from(value) ==
  IF to_lowercase(value) = <<"d", "a", "y">> THEN Ok("Day")
  ELSE IF to_lowercase(value) = <<"s", "u", "n", "s", "e", "t">> THEN Ok("Sunset")
  ELSE IF to_lowercase(value) = <<"s", "u", "n", "r", "i", "s", "e">> THEN Ok("Sunrise")
  ELSE IF to_lowercase(value) = <<"n", "i", "g", "h", "t">> THEN Ok("Night")
  ELSE Err(<<"U", "n", "k", "n", "o", "w", "n", " ", "m", "o", "o", "d", ":", " ">> \o value)

DescType_try_from(value) ==
  IF to_lowercase(value) = <<"r", "a", "c", "e">> THEN Ok("Race")
  ELSE Err(<<"U", "n", "k", "n", "o", "w", "n", " ", "d", "e", "s", "c", ".", "t", "y", "p", "e", ":", " ">> \o value)

\* ------------------------------------------------------------ XML events
\* What xml-rs's EventReader yields: a StartElement with its attributes in
\* document order, an error, or any other event (StartDocument, EndElement,
\* Characters, ...).
StartElement(name, attributes) ==
  [kind |-> "StartElement", name |-> name, attributes |-> attributes]
XmlError == [kind |-> "Err", name |-> "", attributes |-> <<>>]
OtherEvent == [kind |-> "Other", name |-> "", attributes |-> <<>>]
Attr(name, value) == [name |-> name, value |-> value]

\* ------------------------------------------------- challenge.rs decoder
Times_default ==
  [bronze |-> None, silver |-> None, gold |-> None,
   authortime |-> None, authorscore |-> None]

ChallengeXMLHeader_default ==
  [maptype |-> "Challenge", mapversion |-> "TMc6", exever |-> <<>>,
   uid |-> <<>>, name |-> <<>>, author |-> <<>>,
   envir |-> "Stadium", mood |-> "Day", desctype |-> "Race",
   nblaps |-> 0, price |-> 0, times |-> None, dependencies |-> <<>>]

\* r? followed by an assignment of the Ok value to a field
SetOrErr(header, field, r, error) ==
  IF r.tag = "Ok" THEN Ok([header EXCEPT ![field] = r.val])
  ELSE Err([name |-> error, payload |-> r.err])

\* variant: the type arm takes any text for a challenge
challenge_header_attr_anytype(header, attr) ==
  CASE attr.name = "type" -> Ok([header EXCEPT !.maptype = "Challenge"])
    [] attr.name = "version" ->
         SetOrErr(header, "mapversion", GBXVersion_try_from(attr.value),
                  "HeaderTryIntoEnumError")
    [] attr.name = "exever" -> Ok([header EXCEPT !.exever = attr.value])
    [] OTHER -> Ok(header)

challenge_header_attr(header, attr) ==
  CASE attr.name = "type" ->
         SetOrErr(header, "maptype", MapType_try_from(attr.value),
                  "HeaderTryIntoEnumError")
    [] attr.name = "version" ->
         SetOrErr(header, "mapversion", GBXVersion_try_from(attr.value),
                  "HeaderTryIntoEnumError")
    [] attr.name = "exever" -> Ok([header EXCEPT !.exever = attr.value])
    [] OTHER -> Ok(header)

challenge_ident_attr(header, attr) ==
  CASE attr.name = "uid" -> Ok([header EXCEPT !.uid = attr.value])
    [] attr.name = "name" -> Ok([header EXCEPT !.name = attr.value])
    [] attr.name = "author" -> Ok([header EXCEPT !.author = attr.value])
    [] OTHER -> Ok(header)

challenge_desc_attr(header, attr) ==
  CASE attr.name = "envir" ->
         SetOrErr(header, "envir", Environment_try_from(attr.value),
                  "HeaderTryIntoEnumError")
    [] attr.name = "mood" ->
         SetOrErr(header, "mood", Mood_try_from(attr.value),
                  "HeaderTryIntoEnumError")
    [] attr.name = "type" ->
         SetOrErr(header, "desctype", DescType_try_from(attr.value),
                  "HeaderTryIntoEnumError")
    [] attr.name = "nblaps" ->
         SetOrErr(header, "nblaps", u32_from_str(attr.value),
                  "HeaderValueError")
    [] attr.name = "price" ->
         SetOrErr(header, "price", u32_from_str(attr.value),
                  "HeaderValueError")
    [] OTHER -> Ok(header)

\* variant: the authorscore arm assigns times.authortime
challenge_times_attr_pasted(times, attr) ==
  IF attr.name \in {"bronze", "silver", "gold", "authortime", "authorscore"}
  THEN LET r == u32_from_str(attr.value)
           field == IF attr.name = "authorscore" THEN "authortime"
                    ELSE attr.name
       IN IF r.tag = "Ok" THEN [times EXCEPT ![field] = Some(r.val)]
          ELSE IF attr.value = <<"-", "1">> THEN [times EXCEPT ![field] = None]
          ELSE times
  ELSE times

\* if let Ok(s) = value.parse() { Some(s) } else if value == "-1" { None }
challenge_times_attr(times, attr) ==
  IF attr.name \in {"bronze", "silver", "gold", "authortime", "authorscore"}
  THEN LET r == u32_from_str(attr.value)
       IN IF r.tag = "Ok" THEN [times EXCEPT ![attr.name] = Some(r.val)]
          ELSE IF attr.value = <<"-", "1">> THEN [times EXCEPT ![attr.name] = None]
          ELSE times
  ELSE times

RECURSIVE challenge_times_attrs(_, _)
challenge_times_attrs(times, attributes) ==
  IF attributes = <<>> THEN times
  ELSE challenge_times_attrs(challenge_times_attr(times, Head(attributes)),
                             Tail(attributes))

challenge_dep_attr(header, attr) ==
  IF attr.name = "file"
  THEN Ok([header EXCEPT !.dependencies = Append(@, [file |-> attr.value])])
  ELSE Ok(header)

\* variant: an element name without an arm is an error
challenge_attr_strict(name, header, attr) ==
  CASE name = "header" -> challenge_header_attr(header, attr)
    [] name = "ident" -> challenge_ident_attr(header, attr)
    [] name = "desc" -> challenge_desc_attr(header, attr)
    [] name = "dep" -> challenge_dep_attr(header, attr)
    [] OTHER -> Err([name |-> "HeaderValueError", payload |-> <<>>])

challenge_attr(name, header, attr) ==
  CASE name = "header" -> challenge_header_attr(header, attr)
    [] name = "ident" -> challenge_ident_attr(header, attr)
    [] name = "desc" -> challenge_desc_attr(header, attr)
    [] name = "dep" -> challenge_dep_attr(header, attr)
    [] OTHER -> Ok(header)

\* for attr in attributes { ... ? ... }
RECURSIVE challenge_attrs(_, _, _)
challenge_attrs(name, header, attributes) ==
  IF attributes = <<>> THEN Ok(header)
  ELSE LET r == challenge_attr(name, header, Head(attributes))
       IN IF r.tag = "Err" THEN r
          ELSE challenge_attrs(name, r.val, Tail(attributes))

challenge_start_element(header, name, attributes) ==
  IF name = "deps" THEN Ok(header)
  ELSE IF name = "times"
  THEN Ok([header EXCEPT
             !.times = Some(challenge_times_attrs(Times_default, attributes))])
  ELSE challenge_attrs(name, header, attributes)

\* Err(e) => { println!(..); break; }  then Ok(header) after the loop
challenge_xml_error(header) == Ok(header)

RECURSIVE challenge_loop(_, _)
challenge_loop(evs, header) ==
  IF evs = <<>> THEN Ok(header)
  ELSE LET e == Head(evs)
       IN IF e.kind = "StartElement"
          THEN LET r == challenge_start_element(header, e.name, e.attributes)
               IN IF r.tag = "Err" THEN r
                  ELSE challenge_loop(Tail(evs), r.val)
          ELSE IF e.kind = "Err" THEN challenge_xml_error(header)
          ELSE challenge_loop(Tail(evs), header)

parse_challenge_header_xml(evs) ==
  challenge_loop(evs, ChallengeXMLHeader_default)

\* ---------------------------------------------------- replay.rs decoder
ReplayScore_default ==
  [best |-> 0, respawns |-> 0, stuntscore |-> 0, validable |-> FALSE]

ReplayXMLHeader_default ==
  [version |-> "TMc6", exever |-> <<>>, map_uid |-> <<>>, map_name |-> <<>>,
   score |-> ReplayScore_default]

\* the decoder's locals: header and is_replay
ReplayLocals(header, is_replay) == [header |-> header, is_replay |-> is_replay]

\* variant: the type is matched like the enum conversions, ignoring case
replay_header_attr_nocase(st, attr) ==
  CASE attr.name = "type" ->
         IF to_lowercase(attr.value) = <<"r", "e", "p", "l", "a", "y">>
         THEN Ok([st EXCEPT !.is_replay = TRUE])
         ELSE Ok(st)
    [] attr.name = "version" ->
         LET r == GBXVersion_try_from(attr.value)
         IN IF r.tag = "Ok" THEN Ok([st EXCEPT !.header.version = r.val])
            ELSE Err(HeaderTryIntoEnumError(r.err))
    [] attr.name = "exever" -> Ok([st EXCEPT !.header.exever = attr.value])
    [] OTHER -> Ok(st)

replay_header_attr(st, attr) ==
  CASE attr.name = "type" ->
         IF attr.value = <<"r", "e", "p", "l", "a", "y">>
         THEN Ok([st EXCEPT !.is_replay = TRUE])
         ELSE Ok(st)
    [] attr.name = "version" ->
         LET r == GBXVersion_try_from(attr.value)
         IN IF r.tag = "Ok" THEN Ok([st EXCEPT !.header.version = r.val])
            ELSE Err(HeaderTryIntoEnumError(r.err))
    [] attr.name = "exever" -> Ok([st EXCEPT !.header.exever = attr.value])
    [] OTHER -> Ok(st)

replay_map_attr(st, attr) ==
  CASE attr.name = "uid" -> Ok([st EXCEPT !.header.map_uid = attr.value])
    [] attr.name = "name" -> Ok([st EXCEPT !.header.map_name = attr.value])
    [] OTHER -> Ok(st)

\* variant: best honours the Challenge decoder's "-1" sentinel
replay_times_attr_sentinel(st, attr) ==
  CASE attr.name = "best" ->
         LET r == u32_from_str(attr.value)
         IN IF r.tag = "Ok" THEN Ok([st EXCEPT !.header.score.best = r.val])
            ELSE IF attr.value = <<"-", "1">> THEN Ok(st)
            ELSE Err(HeaderValueError(r.err))
    [] attr.name = "respawns" ->
         LET r == i32_from_str(attr.value)
         IN IF r.tag = "Ok" THEN Ok([st EXCEPT !.header.score.respawns = r.val])
            ELSE Err(HeaderValueError(r.err))
    [] attr.name = "stuntscore" ->
         LET r == u32_from_str(attr.value)
         IN IF r.tag = "Ok" THEN Ok([st EXCEPT !.header.score.stuntscore = r.val])
            ELSE Err(HeaderValueError(r.err))
    [] attr.name = "validable" ->
         LET r == u32_from_str(attr.value)
         IN IF r.tag = "Ok"
            THEN Ok([st EXCEPT !.header.score.validable = (0 # r.val)])
            ELSE Err(HeaderValueError(r.err))
    [] OTHER -> Ok(st)

replay_times_attr(st, attr) ==
  CASE attr.name = "best" ->
         LET r == u32_from_str(attr.value)
         IN IF r.tag = "Ok" THEN Ok([st EXCEPT !.header.score.best = r.val])
            ELSE Err(HeaderValueError(r.err))
    [] attr.name = "respawns" ->
         LET r == i32_from_str(attr.value)
         IN IF r.tag = "Ok" THEN Ok([st EXCEPT !.header.score.respawns = r.val])
            ELSE Err(HeaderValueError(r.err))
    [] attr.name = "stuntscore" ->
         LET r == u32_from_str(attr.value)
         IN IF r.tag = "Ok" THEN Ok([st EXCEPT !.header.score.stuntscore = r.val])
            ELSE Err(HeaderValueError(r.err))
    [] attr.name = "validable" ->
         LET r == u32_from_str(attr.value)
         IN IF r.tag = "Ok"
            THEN Ok([st EXCEPT !.header.score.validable = (0 # r.val)])
            ELSE Err(HeaderValueError(r.err))
    [] OTHER -> Ok(st)

replay_attr(name, st, attr) ==
  CASE name = "header" -> replay_header_attr(st, attr)
    [] name = "map" -> replay_map_attr(st, attr)
    [] name = "times" -> replay_times_attr(st, attr)
    [] OTHER -> Ok(st)

RECURSIVE replay_attrs(_, _, _)
replay_attrs(name, st, attributes) ==
  IF attributes = <<>> THEN Ok(st)
  ELSE LET r == replay_attr(name, st, Head(attributes))
       IN IF r.tag = "Err" THEN r
          ELSE replay_attrs(name, r.val, Tail(attributes))

\* Err(e) => return Err(ParseError::XMLParseError(e))
replay_xml_error(st) == Err(XMLParseError)

\* if is_replay { Ok(header) } else { Err(ParseError::HeaderNotFound) }
replay_finish(st) ==
  IF st.is_replay THEN Ok(st.header) ELSE Err(HeaderNotFound)

RECURSIVE replay_loop(_, _)
replay_loop(evs, st) ==
  IF evs = <<>> THEN replay_finish(st)
  ELSE LET e == Head(evs)
       IN IF e.kind = "StartElement"
          THEN LET r == replay_attrs(e.name, st, e.attributes)
               IN IF r.tag = "Err" THEN r
                  ELSE replay_loop(Tail(evs), r.val)
          ELSE IF e.kind = "Err" THEN replay_xml_error(st)
          ELSE replay_loop(Tail(evs), st)

parse_replay_xml(evs) ==
  replay_loop(evs, ReplayLocals(ReplayXMLHeader_default, FALSE))

\* ---------------------------------------------------- input event streams
TimesFields == {"bronze", "silver", "gold", "authortime", "authorscore"}
TimeValues == {<<"5", "0", "0", "0", "0">>, <<"-", "1">>, <<"a", "b", "c">>, <<"-", "2">>, <<>>}

HeaderEvents ==
  {StartElement("header", <<Attr("type", v)>>) :
     v \in {<<"c", "h", "a", "l", "l", "e", "n", "g", "e">>, <<"C", "h", "a", "l", "l", "e", "n", "g", "e">>, <<"r", "e", "p", "l", "a", "y">>, <<"R", "e", "p", "l", "a", "y">>}}
  \cup {StartElement("header", <<Attr("version", v)>>) : v \in {<<"T", "M", "r", ".", "7">>, <<"B", "o", "g", "u", "s">>}}
  \cup {StartElement("header", <<>>),
        StartElement("header", <<Attr("lang", <<"e", "n">>),
                                 Attr("version", <<"T", "M", "r", ".", "7">>)>>)}

DescEvents ==
  {StartElement("desc", <<Attr("envir", <<"A", "l", "p", "i", "n", "e">>)>>),
   StartElement("desc", <<Attr("mood", <<"N", "i", "g", "h", "t">>)>>),
   StartElement("desc", <<Attr("mood", <<"D", "u", "s", "k">>)>>),
   StartElement("desc", <<Attr("type", <<"S", "t", "u", "n", "t">>)>>),
   StartElement("desc", <<Attr("nblaps", <<"3">>)>>),
   StartElement("desc", <<Attr("nblaps", <<"x">>)>>)}

ChallengeTimesEvents ==
  {StartElement("times", <<Attr(f, v)>>) : f \in TimesFields, v \in TimeValues}
  \cup {StartElement("times", <<>>),
        StartElement("times", <<Attr("bronze", <<"4", "2", "9", "4", "9", "6", "7", "2", "9", "6">>)>>),
        StartElement("times", <<Attr("bronze", <<"-", "1">>), Attr("silver", <<"5", "0", "0", "0", "0">>),
                                Attr("gold", <<"a", "b", "c">>)>>)}

ReplayTimesEvents ==
  {StartElement("times", <<Attr("best", v)>>) :
     v \in {<<"-", "1">>, <<"7">>, <<"+", "7">>, <<"a", "b", "c">>, <<"4", "2", "9", "4", "9", "6", "7", "2", "9", "6">>}}
  \cup {StartElement("times", <<Attr("respawns", v)>>) : v \in {<<"-", "1">>, <<"x">>}}
  \cup {StartElement("times", <<Attr("stuntscore", <<"-", "1">>)>>),
        StartElement("times", <<Attr("validable", <<"1">>)>>),
        StartElement("times", <<Attr("validable", <<"-", "1">>)>>)}

MapEvents ==
  {StartElement(n, <<Attr("uid", <<"u", "1">>), Attr("name", <<"A">>)>>) :
     n \in {"map", "challenge"}}

MiscEvents ==
  {StartElement("ident", <<Attr("uid", <<"u", "1">>)>>),
   StartElement("deps", <<>>),
   StartElement("dep", <<Attr("file", <<"f">>)>>),
   StartElement("foo", <<Attr("type", <<"Z", "e", "d">>)>>),
   OtherEvent}

XmlEvents ==
  HeaderEvents \cup DescEvents \cup ChallengeTimesEvents
    \cup ReplayTimesEvents \cup MapEvents \cup MiscEvents

\* every stream of at most MaxEvents events; the reader stops at its first
\* error, so an error event is always the last one.  The empty buffer is
\* the stream <<XmlError>> (replay.rs tests: the reader fails on b"").
XmlStreams ==
  LET good == SeqsUpTo(XmlEvents, MaxEvents)
  IN {s \in good : Len(s) > 0}
       \cup {Append(s, XmlError) : s \in SeqsUpTo(XmlEvents, MaxEvents - 1)}

ParseChallengeHeaderXml ==
  /\ challenge = NotCalled
  /\ challenge' = parse_challenge_header_xml(events)
  /\ UNCHANGED <<buffer, gbx, events, replay, shown, from_file>>

ParseReplayXml ==
  /\ replay = NotCalled
  /\ replay' = parse_replay_xml(events)
  /\ UNCHANGED <<buffer, gbx, events, challenge, shown, from_file>>

InitXml ==
  /\ events \in XmlStreams
  /\ challenge = NotCalled
  /\ replay = NotCalled
  /\ buffer = <<>>
  /\ gbx = NotCalled
  /\ shown = NotCalled
  /\ from_file = NotCalled

NextXml == ParseChallengeHeaderXml \/ ParseReplayXml

SpecXml == InitXml /\ [][NextXml]_vars

\* ------------------------------------------- mod.rs MapClass and Display
\* the EnumRepr table; an id is <<high 16 bits, low 16 bits>>
MapClass ==
  {[id |-> <<772, 12288>>, name |-> "CGameCtnChallenge"],
   [id |-> <<769, 45056>>, name |-> "CGameCtnCollectorList"],
   [id |-> <<773, 45056>>, name |-> "CGameCtnChallengeParameters"],
   [id |-> <<773, 36864>>, name |-> "CGameCtnBlockSkin"],
   [id |-> <<787, 45056>>, name |-> "CGameWaypointSpecialProperty"],
   [id |-> <<777, 12288>>, name |-> "CGameCtnReplayRecord"],
   [id |-> <<771, 61445>>, name |-> "CGameGhost"],
   [id |-> <<777, 8192>>, name |-> "CGameCtnGhost"],
   [id |-> <<769, 40960>>, name |-> "CGameCtnCollector"],
   [id |-> <<769, 49152>>, name |-> "CGameCtnObjectInfo"],
   [id |-> <<771, 32768>>, name |-> "CGameCtnDecoration"],
   [id |-> <<771, 12288>>, name |-> "CGameCtnCollection"],
   [id |-> <<771, 4096>>, name |-> "CGameSkin"],
   [id |-> <<776, 49152>>, name |-> "CGamePlayerProfile"],
   [id |-> <<256, 4096>>, name |-> "CMwNod"]}

\* MapClass::from_repr(value).ok_or(())
MapClass_try_from(value) ==
  IF \E m \in MapClass : m.id = value
  THEN Ok((CHOOSE m \in MapClass : m.id = value).name)
  ELSE Err(<<>>)

\* format!("{:?}", c) of a MapClass: the variant's name
MapClass_debug(n) ==
  CASE n = "CGameCtnChallenge" -> <<"C", "G", "a", "m", "e", "C", "t", "n", "C", "h", "a", "l", "l", "e", "n", "g", "e">>
    [] n = "CGameCtnCollectorList" -> <<"C", "G", "a", "m", "e", "C", "t", "n", "C", "o", "l", "l", "e", "c", "t", "o", "r", "L", "i", "s", "t">>
    [] n = "CGameCtnChallengeParameters" -> <<"C", "G", "a", "m", "e", "C", "t", "n", "C", "h", "a", "l", "l", "e", "n", "g", "e", "P", "a", "r", "a", "m", "e", "t", "e", "r", "s">>
    [] n = "CGameCtnBlockSkin" -> <<"C", "G", "a", "m", "e", "C", "t", "n", "B", "l", "o", "c", "k", "S", "k", "i", "n">>
    [] n = "CGameWaypointSpecialProperty" -> <<"C", "G", "a", "m", "e", "W", "a", "y", "p", "o", "i", "n", "t", "S", "p", "e", "c", "i", "a", "l", "P", "r", "o", "p", "e", "r", "t", "y">>
    [] n = "CGameCtnReplayRecord" -> <<"C", "G", "a", "m", "e", "C", "t", "n", "R", "e", "p", "l", "a", "y", "R", "e", "c", "o", "r", "d">>
    [] n = "CGameGhost" -> <<"C", "G", "a", "m", "e", "G", "h", "o", "s", "t">>
    [] n = "CGameCtnGhost" -> <<"C", "G", "a", "m", "e", "C", "t", "n", "G", "h", "o", "s", "t">>
    [] n = "CGameCtnCollector" -> <<"C", "G", "a", "m", "e", "C", "t", "n", "C", "o", "l", "l", "e", "c", "t", "o", "r">>
    [] n = "CGameCtnObjectInfo" -> <<"C", "G", "a", "m", "e", "C", "t", "n", "O", "b", "j", "e", "c", "t", "I", "n", "f", "o">>
    [] n = "CGameCtnDecoration" -> <<"C", "G", "a", "m", "e", "C", "t", "n", "D", "e", "c", "o", "r", "a", "t", "i", "o", "n">>
    [] n = "CGameCtnCollection" -> <<"C", "G", "a", "m", "e", "C", "t", "n", "C", "o", "l", "l", "e", "c", "t", "i", "o", "n">>
    [] n = "CGameSkin" -> <<"C", "G", "a", "m", "e", "S", "k", "i", "n">>
    [] n = "CGamePlayerProfile" -> <<"C", "G", "a", "m", "e", "P", "l", "a", "y", "e", "r", "P", "r", "o", "f", "i", "l", "e">>
    [] n = "CMwNod" -> <<"C", "M", "w", "N", "o", "d">>

\* "{}" of an unsigned number
RECURSIVE to_decimal(_)
to_decimal(n) ==
  IF n < 10 THEN <<DIGITS[n + 1]>>
  ELSE to_decimal(n \div 10) \o <<DIGITS[(n % 10) + 1]>>

HEXDIGITS == <<"0", "1", "2", "3", "4", "5", "6", "7",
               "8", "9", "a", "b", "c", "d", "e", "f">>
hex4(n) ==
  <<HEXDIGITS[(n \div 4096) + 1], HEXDIGITS[((n \div 256) % 16) + 1],
    HEXDIGITS[((n \div 16) % 16) + 1], HEXDIGITS[(n % 16) + 1]>>
\* "{:08x}" of a u32
hex08(id) == hex4(id[1]) \o hex4(id[2])

\* "{:?}" of a String (no character here needs escaping)
String_debug(t) == <<"\"">> \o t \o <<"\"">>

\* variant: the class is unwrapped instead of falling back to a text
GBXBinaryHeader_fmt_unwrap(bin_header) ==
  LET c == MapClass_try_from(bin_header.class_id)
  IN IF c.tag = "Ok"
     THEN Ok(<<"v">> \o to_decimal(bin_header.version) \o <<",", " ", "c", "l", "a", "s", "s", " ", "i", "d", ":", " ">>
               \o hex08(bin_header.class_id) \o <<" ", "(">>
               \o String_debug(MapClass_debug(c.val)) \o <<")">>)
     ELSE Panic("unwrap on Err")

\* write!(f, "v{}, class id: {:08x} ({:?})", version, class_id,
\*        MapClass::try_from(class_id).map_or("unknown".to_owned(), ..))
GBXBinaryHeader_fmt(bin_header) ==
  LET c == MapClass_try_from(bin_header.class_id)
      text == IF c.tag = "Ok" THEN MapClass_debug(c.val) ELSE <<"u", "n", "k", "n", "o", "w", "n">>
  IN Ok(<<"v">> \o to_decimal(bin_header.version) \o <<",", " ", "c", "l", "a", "s", "s", " ", "i", "d", ":", " ">>
          \o hex08(bin_header.class_id) \o <<" ", "(">>
          \o String_debug(text) \o <<")">>)

\* ------------------------------------------------ parser.rs parse_from_file
\* what File::open and read_to_end can do
IoOutcomes == {"ok", "open_fails", "read_fails"}
Filenames == {"a.gbx", "b.gbx"}

\* variant: the origin is left as parse_from_buffer set it
parse_from_file_keeps_origin(filename, io, contents, overflow_checks, header_ok) ==
  IF io = "open_fails" THEN Err("IOError")
  ELSE IF io = "read_fails" THEN Err("IOError")
  ELSE parse_from_buffer(contents, overflow_checks, header_ok)

\* io is what the file system does; contents is what read_to_end reads
parse_from_file(filename, io, contents, overflow_checks, header_ok) ==
  IF io = "open_fails" THEN Err("IOError")
  ELSE IF io = "read_fails" THEN Err("IOError")
  ELSE LET r == parse_from_buffer(contents, overflow_checks, header_ok)
       IN IF r.tag # "Ok" THEN r
          ELSE Ok([r.val EXCEPT !.origin = GBXOrigin_File(filename)])

\* ------------------------------------------- actions on buffers and files
DisplayBinaryHeader ==
  /\ gbx.tag = "Ok"
  /\ shown = NotCalled
  /\ shown' = GBXBinaryHeader_fmt(gbx.val.bin_header)
  /\ UNCHANGED <<buffer, gbx, events, challenge, replay, from_file>>

\* the file holds the bytes of `buffer`
ParseFromFile ==
  /\ from_file = NotCalled
  /\ \E filename \in Filenames, io \in IoOutcomes,
        overflow_checks \in BOOLEAN, header_ok \in BOOLEAN :
       from_file' =
         [tag |-> "Called", filename |-> filename, io |-> io,
          overflow_checks |-> overflow_checks, header_ok |-> header_ok,
          result |-> parse_from_file(filename, io, buffer,
                                     overflow_checks, header_ok)]
  /\ UNCHANGED <<buffer, gbx, events, challenge, replay, shown>>

InitBuffer ==
  /\ buffer \in Buffers
  /\ gbx = NotCalled
  /\ events = <<>>
  /\ challenge = NotCalled
  /\ replay = NotCalled
  /\ shown = NotCalled
  /\ from_file = NotCalled

NextBuffer == ParseFromBuffer \/ DisplayBinaryHeader

SpecBuffer == InitBuffer /\ [][NextBuffer]_vars

NextFile == ParseFromFile \/ ParseFromBuffer

SpecFile == InitBuffer /\ [][NextFile]_vars

\* =============================================================== claims
\* ---- vocabulary of the statements about buffers (independent of
\* ---- find_window): a token occurs at 0-based index i
MatchesAt(buf, tok, i) ==
  /\ i >= 0
  /\ i + Len(tok) <= Len(buf)
  /\ \A k \in 1..Len(tok) : buf[i + k] = tok[k]
Occurs(buf, tok) == \E i \in 0..Len(buf) : MatchesAt(buf, tok, i)
FirstAt(buf, tok) ==
  CHOOSE i \in 0..Len(buf) :
    MatchesAt(buf, tok, i) /\ \A j \in 0..(i - 1) : ~MatchesAt(buf, tok, j)
HasMagic(buf) == Len(buf) >= 3 /\ buf[1] = 71 /\ buf[2] = 66 /\ buf[3] = 88
BufferParsed == gbx.tag # "NotCalled"

\* C1: a buffer that starts with "GBX" and has length 3..12 makes
\* parse_from_buffer return the error FileTooShort (no panic, no record).
C1_ShortAfterMagicIsFileTooShort ==
  (BufferParsed /\ HasMagic(buffer) /\ Len(buffer) <= 12)
    => gbx = Err("FileTooShort")

\* C2: with valid magic and at least 13 bytes, if "<header " or "</header>"
\* does not occur, parse_from_buffer fails with HeaderNotFound and returns
\* no record.
C2_MissingHeaderTokenIsHeaderNotFound ==
  (BufferParsed /\ HasMagic(buffer) /\ Len(buffer) >= 13
     /\ (~Occurs(buffer, HEADER_START_TOKEN) \/ ~Occurs(buffer, HEADER_END_TOKEN)))
    => gbx = Err("HeaderNotFound")

\* C3: when both header tokens occur and the first "</header>" ends before
\* the first "<header " begins, parse_from_buffer returns an error value: it
\* neither panics on the slice hs..he nor returns a record.
C3_HeaderEndBeforeStartIsError ==
  (BufferParsed /\ Occurs(buffer, HEADER_START_TOKEN)
     /\ Occurs(buffer, HEADER_END_TOKEN)
     /\ FirstAt(buffer, HEADER_END_TOKEN) + Len(HEADER_END_TOKEN)
          < FirstAt(buffer, HEADER_START_TOKEN))
    => gbx.tag = "Err"

\* ---- vocabulary of the statements about the decoders (independent of
\* ---- the decoders and of u32_from_str)
DigitChars == {"0", "1", "2", "3", "4", "5", "6", "7", "8", "9"}
DigitValue(c) ==
  CASE c = "0" -> 0 [] c = "1" -> 1 [] c = "2" -> 2 [] c = "3" -> 3
    [] c = "4" -> 4 [] c = "5" -> 5 [] c = "6" -> 6 [] c = "7" -> 7
    [] c = "8" -> 8 [] c = "9" -> 9
AllDigits(d) == d # <<>> /\ \A i \in 1..Len(d) : d[i] \in DigitChars
RECURSIVE StripZeros(_)
StripZeros(d) ==
  IF Len(d) > 1 /\ Head(d) = "0" THEN StripZeros(Tail(d)) ELSE d
\* a <= b for two digit texts of the same length
DigitsLeq(a, b) ==
  \/ a = b
  \/ \E i \in 1..Len(a) :
       /\ \A j \in 1..(i - 1) : a[j] = b[j]
       /\ DigitValue(a[i]) < DigitValue(b[i])
\* the digit text d denotes a number of at most the number max denotes
AtMost(d, max) ==
  LET z == StripZeros(d)
  IN Len(z) < Len(max) \/ (Len(z) = Len(max) /\ DigitsLeq(z, max))
RECURSIVE DecimalValue(_)
DecimalValue(d) ==
  IF d = <<>> THEN 0
  ELSE 10 * DecimalValue(SubSeq(d, 1, Len(d) - 1)) + DigitValue(d[Len(d)])

Unsigned(v) == IF v # <<>> /\ Head(v) = "+" THEN Tail(v) ELSE v
\* v is a decimal numeral of a u32 (Rust accepts a leading "+")
IsU32Text(v) == AllDigits(Unsigned(v)) /\ AtMost(Unsigned(v), <<"4", "2", "9", "4", "9", "6", "7", "2", "9", "5">>)
U32Value(v) == DecimalValue(Unsigned(v))
\* v is a decimal numeral of an i32
IsI32Text(v) ==
  IF v # <<>> /\ Head(v) = "-"
  THEN AllDigits(Tail(v)) /\ AtMost(Tail(v), <<"2", "1", "4", "7", "4", "8", "3", "6", "4", "8">>)
  ELSE AllDigits(Unsigned(v)) /\ AtMost(Unsigned(v), <<"2", "1", "4", "7", "4", "8", "3", "6", "4", "7">>)

\* the attributes and reader errors of a stream, in the order met
EventItems(e) ==
  IF e.kind = "Err"
  THEN <<[el |-> "", name |-> "", value |-> <<>>, xml_error |-> TRUE]>>
  ELSE IF e.kind = "StartElement" /\ e.name # "deps"
  THEN [i \in 1..Len(e.attributes) |->
          [el |-> e.name, name |-> e.attributes[i].name,
           value |-> e.attributes[i].value, xml_error |-> FALSE]]
  ELSE <<>>
RECURSIVE StreamItems(_)
StreamItems(evs) ==
  IF evs = <<>> THEN <<>>
  ELSE EventItems(Head(evs)) \o StreamItems(Tail(evs))

\* least index of the set S, 0 if S is empty
FirstIn(S) == IF S = {} THEN 0 ELSE CHOOSE i \in S : \A j \in S : i <= j

EnumAttrKind(el, name) ==
  CASE el = "header" /\ name = "type" -> "MapType"
    [] el = "header" /\ name = "version" -> "GBXVersion"
    [] el = "desc" /\ name = "envir" -> "Environment"
    [] el = "desc" /\ name = "mood" -> "Mood"
    [] el = "desc" /\ name = "type" -> "DescType"
    [] OTHER -> "none"
ClosedSet(kind) ==
  CASE kind = "MapType" -> {<<"c", "h", "a", "l", "l", "e", "n", "g", "e">>}
    [] kind = "GBXVersion" -> {<<"t", "m", "c", ".", "6">>, <<"t", "m", "r", ".", "7">>}
    [] kind = "Environment" -> {<<"s", "t", "a", "d", "i", "u", "m">>}
    [] kind = "Mood" -> {<<"d", "a", "y">>, <<"s", "u", "n", "s", "e", "t">>, <<"s", "u", "n", "r", "i", "s", "e">>, <<"n", "i", "g", "h", "t">>}
    [] kind = "DescType" -> {<<"r", "a", "c", "e">>}
InClosedSet(kind, v) == \E m \in ClosedSet(kind) : to_lowercase(v) = m

IsXmlError(it) == it.xml_error
ChallengeEnumFault(it) ==
  /\ ~it.xml_error
  /\ EnumAttrKind(it.el, it.name) # "none"
  /\ ~InClosedSet(EnumAttrKind(it.el, it.name), it.value)
ChallengeIntFault(it) ==
  ~it.xml_error /\ it.el = "desc" /\ it.name \in {"nblaps", "price"}
    /\ ~IsU32Text(it.value)
ChallengeTimesFault(it) ==
  ~it.xml_error /\ it.el = "times" /\ it.name \in TimesFields
    /\ ~IsU32Text(it.value) /\ it.value # <<"-", "1">>
\* what ends the Challenge decode early: reader error, bad enum, bad integer
ChallengeStop(it) ==
  IsXmlError(it) \/ ChallengeEnumFault(it) \/ ChallengeIntFault(it)
\* every malformation of the Challenge header
ChallengeFault(it) == ChallengeStop(it) \/ ChallengeTimesFault(it)

ReplayEnumFault(it) ==
  ~it.xml_error /\ it.el = "header" /\ it.name = "version"
    /\ ~InClosedSet("GBXVersion", it.value)
ReplayIntFault(it) ==
  /\ ~it.xml_error
  /\ it.el = "times"
  /\ \/ it.name \in {"best", "stuntscore", "validable"} /\ ~IsU32Text(it.value)
     \/ it.name = "respawns" /\ ~IsI32Text(it.value)
ReplayFault(it) == IsXmlError(it) \/ ReplayEnumFault(it) \/ ReplayIntFault(it)

ChallengeParsed == challenge.tag # "NotCalled"
ReplayParsed == replay.tag # "NotCalled"

\* C4: both XML decoders return the XML error (MalformedXML) when the reader
\* reports an error event, the empty buffer included; neither returns Ok
\* with the header built from the events before the error.
C4_ReaderErrorIsMalformedXML ==
  LET its == StreamItems(events)
      kc == FirstIn({i \in 1..Len(its) : ChallengeFault(its[i])})
      kr == FirstIn({i \in 1..Len(its) : ReplayFault(its[i])})
  IN /\ (ChallengeParsed /\ kc > 0 /\ IsXmlError(its[kc]))
          => challenge = Err(XMLParseError)
     /\ (ReplayParsed /\ kr > 0 /\ IsXmlError(its[kr]))
          => replay = Err(XMLParseError)

\* C5: in the Challenge decoder a times attribute bronze, silver, gold,
\* authortime or authorscore whose value is neither a u32 numeral nor "-1"
\* makes the decode fail with the integer-value error; it never returns Ok.
C5_BadTimesValueIsIntegerError ==
  LET its == StreamItems(events)
      k == FirstIn({i \in 1..Len(its) : ChallengeFault(its[i])})
  IN (ChallengeParsed /\ k > 0 /\ ChallengeTimesFault(its[k])
        /\ FirstIn({i \in 1..Len(its) : IsXmlError(its[i])}) = 0)
       => (challenge.tag = "Err" /\ challenge.err.name = "HeaderValueError")

TimesElements ==
  {i \in 1..Len(events) :
     events[i].kind = "StartElement" /\ events[i].name = "times"}
\* the value given to attribute f of start element e, if any
Given(e, f) ==
  IF \E j \in 1..Len(e.attributes) : e.attributes[j].name = f
  THEN Some(e.attributes[CHOOSE j \in 1..Len(e.attributes) :
                           e.attributes[j].name = f].value)
  ELSE None

\* C6: when the Challenge decoder returns a header, its times field is None
\* if the stream has no times element; otherwise it is Some(record), built
\* from the (last) times element, in which a field given as a u32 numeral n
\* is Some(n), a field given as "-1" is None and a field not given is None.
C6_TimesDecoding ==
  (ChallengeParsed /\ challenge.tag = "Ok") =>
    IF TimesElements = {} THEN challenge.val.times = None
    ELSE LET e == events[CHOOSE i \in TimesElements :
                           \A j \in TimesElements : j <= i]
             times == challenge.val.times
         IN /\ IsSome(times)
            /\ \A f \in TimesFields :
                 LET a == Given(e, f)
                     got == Unwrap(times)[f]
                 IN /\ a = None => got = None
                    /\ (IsSome(a) /\ Unwrap(a) = <<"-", "1">>) => got = None
                    /\ (IsSome(a) /\ IsU32Text(Unwrap(a)))
                         => got = Some(U32Value(Unwrap(a)))

C6_Witness ==
  /\ challenge.tag = "Ok"
  /\ events = <<StartElement("times", <<Attr("bronze", <<"-", "1">>),
                                         Attr("silver", <<"5", "0", "0", "0", "0">>),
                                         Attr("gold", <<"a", "b", "c">>)>>)>>
  /\ challenge.val.times =
       Some([bronze |-> None, silver |-> Some(50000), gold |-> None,
             authortime |-> None, authorscore |-> None])

\* C7: the Replay decoder has no "-1" sentinel: a times attribute best,
\* stuntscore or validable that is not a u32 numeral, or respawns that is not
\* an i32 numeral, makes parse_replay_xml fail with the integer-value error,
\* also when the header type is 'replay'.
C7_ReplayBadIntegerIsError ==
  LET its == StreamItems(events)
      k == FirstIn({i \in 1..Len(its) : ReplayFault(its[i])})
  IN (ReplayParsed /\ k > 0 /\ ReplayIntFault(its[k]))
       => (replay.tag = "Err" /\ replay.err.name = "HeaderValueError")

C7_Witness ==
  /\ events = <<StartElement("header", <<Attr("type", <<"r", "e", "p", "l", "a", "y">>)>>),
                StartElement("times", <<Attr("best", <<"-", "1">>)>>)>>
  /\ replay = Err(HeaderValueError("InvalidDigit"))

HasReplayType ==
  \E i \in 1..Len(events) :
    /\ events[i].kind = "StartElement"
    /\ events[i].name = "header"
    /\ Given(events[i], "type") = Some(<<"r", "e", "p", "l", "a", "y">>)

\* C8: on a stream without reader error and without invalid attribute value,
\* parse_replay_xml returns Ok exactly when some header element has the type
\* attribute "replay" (case-sensitive) and HeaderNotFound otherwise; other
\* type values do not stop the scan; <header type='replay'></header> alone
\* gives the default header with zero/false score.
C8_ReplayTypeDecides ==
  (ReplayParsed /\ \A i \in 1..Len(StreamItems(events)) :
                     ~ReplayFault(StreamItems(events)[i])) =>
    /\ replay.tag = "Ok" <=> HasReplayType
    /\ ~HasReplayType => replay = Err(HeaderNotFound)
    /\ events = <<StartElement("header", <<Attr("type", <<"r", "e", "p", "l", "a", "y">>)>>),
                  OtherEvent>>
         => replay = Ok([version |-> "TMc6", exever |-> <<>>,
                         map_uid |-> <<>>, map_name |-> <<>>,
                         score |-> [best |-> 0, respawns |-> 0,
                                    stuntscore |-> 0, validable |-> FALSE]])

C8_Witness ==
  /\ events = <<StartElement("header", <<Attr("type", <<"R", "e", "p", "l", "a", "y">>)>>),
                StartElement("header", <<Attr("type", <<"r", "e", "p", "l", "a", "y">>)>>)>>
  /\ replay.tag = "Ok"

\* the stream with every `map` element renamed to the legacy `challenge`
RenameMapToChallenge(evs) ==
  [i \in 1..Len(evs) |->
     IF evs[i].kind = "StartElement" /\ evs[i].name = "map"
     THEN [evs[i] EXCEPT !.name = "challenge"]
     ELSE evs[i]]

\* C9: the Replay decoder reads map uid and map name from a `map` element
\* and equally from a legacy `challenge` element: renaming `map` to
\* `challenge` in a replay header gives the same decoded uid and name.
C9_LegacyChallengeElement ==
  (ReplayParsed /\ replay.tag = "Ok") =>
    LET legacy == parse_replay_xml(RenameMapToChallenge(events))
    IN /\ legacy.tag = "Ok"
       /\ legacy.val.map_uid = replay.val.map_uid
       /\ legacy.val.map_name = replay.val.map_name

EnumMessage(kind) ==
  CASE kind = "MapType" -> <<"U", "n", "k", "n", "o", "w", "n", " ", "m", "a", "p", " ", "t", "y", "p", "e", ":", " ">>
    [] kind = "GBXVersion" -> <<"U", "n", "k", "n", "o", "w", "n", " ", "m", "a", "p", " ", "v", "e", "r", "s", "i", "o", "n", ":", " ">>
    [] kind = "Environment" -> <<"U", "n", "k", "n", "o", "w", "n", " ", "e", "n", "v", "i", "r", "o", "n", "m", "e", "n", "t", ":", " ">>
    [] kind = "Mood" -> <<"U", "n", "k", "n", "o", "w", "n", " ", "m", "o", "o", "d", ":", " ">>
    [] kind = "DescType" -> <<"U", "n", "k", "n", "o", "w", "n", " ", "d", "e", "s", "c", ".", "t", "y", "p", "e", ":", " ">>

\* C10 (as claimed): in the Challenge decoder an enum attribute whose value
\* is not in the closed set aborts the decode with the enum error whose
\* payload is exactly the attribute text.
C10_EnumErrorPayloadIsText ==
  LET its == StreamItems(events)
      k == FirstIn({i \in 1..Len(its) : ChallengeStop(its[i])})
  IN (ChallengeParsed /\ k > 0 /\ ChallengeEnumFault(its[k]))
       => challenge = Err(HeaderTryIntoEnumError(its[k].value))

\* C10 (amended): in the Challenge decoder an enum attribute (header type,
\* header version, desc envir, desc mood, desc type) whose lower-cased value
\* is not in the closed set aborts the decode with the enum error, whose
\* payload is the message "Unknown <kind>: " followed by the attribute text
\* exactly as it appeared in the input; no header is returned.
C10_EnumErrorPayloadIsMessage ==
  LET its == StreamItems(events)
      k == FirstIn({i \in 1..Len(its) : ChallengeStop(its[i])})
  IN (ChallengeParsed /\ k > 0 /\ ChallengeEnumFault(its[k]))
       => challenge =
            Err(HeaderTryIntoEnumError(
                  EnumMessage(EnumAttrKind(its[k].el, its[k].name))
                    \o its[k].value))

C10_Witness ==
  /\ events = <<StartElement("desc", <<Attr("mood", <<"N", "i", "g", "h", "t">>)>>),
                StartElement("header", <<Attr("type", <<"R", "e", "p", "l", "a", "y">>)>>)>>
  /\ challenge = Err(HeaderTryIntoEnumError(<<"U", "n", "k", "n", "o", "w", "n", " ", "m", "a", "p", " ", "t", "y", "p", "e", ":", " ", "R", "e", "p", "l", "a", "y">>))

\* C11: a buffer of fewer than 3 bytes (the empty one included) makes
\* parse_from_buffer return FileTooShort; the length is checked before the
\* magic and before any token search.
C11_ShorterThanMagicIsFileTooShort ==
  (BufferParsed /\ Len(buffer) < 3) => gbx = Err("FileTooShort")

C11_Witness ==
  /\ buffer = <<71, 66>>
  /\ gbx = Err("FileTooShort")

\* C12: a buffer of at least 3 bytes whose first three bytes are not "GBX"
\* makes parse_from_buffer return MissingMagic, whatever follows (a complete
\* header or thumbnail included).
C12_WrongMagicIsMissingMagic ==
  (BufferParsed /\ Len(buffer) >= 3 /\ ~HasMagic(buffer))
    => gbx = Err("MissingGBXMagic")

C12_Witness ==
  /\ Len(buffer) >= 3
  /\ ~HasMagic(buffer)
  /\ Occurs(buffer, HEADER_START_TOKEN)
  /\ Occurs(buffer, HEADER_END_TOKEN)
  /\ FirstAt(buffer, HEADER_START_TOKEN) < FirstAt(buffer, HEADER_END_TOKEN)
  /\ Occurs(buffer, THUMBNAIL_START_TOKEN)
  /\ gbx = Err("MissingGBXMagic")

\* C13: thumbnail absence is not an error: on every buffer for which
\* parse_from_buffer returns a record, if FF D8 FF or FF D9 does not occur
\* the thumbnail, its start and its length are all unset; the thumbnail is
\* set exactly when both tokens occur and is then the bytes from the first
\* FF D8 FF up to and including the first FF D9.  (Stated for the buffers
\* that hold a header, start token before end token, where returning a
\* record is undisputed.)
C13_ThumbnailAbsence ==
  (gbx.tag = "Ok" /\ Occurs(buffer, HEADER_START_TOKEN)
     /\ Occurs(buffer, HEADER_END_TOKEN)
     /\ FirstAt(buffer, HEADER_START_TOKEN)
          < FirstAt(buffer, HEADER_END_TOKEN)) =>
    LET both == Occurs(buffer, THUMBNAIL_START_TOKEN)
                  /\ Occurs(buffer, THUMBNAIL_END_TOKEN)
    IN /\ ~both => /\ gbx.val.thumbnail = None
                   /\ gbx.val.thumbnail_start = None
                   /\ gbx.val.thumbnail_length = None
       /\ IsSome(gbx.val.thumbnail) <=> both
       /\ both => gbx.val.thumbnail =
                    Some(Slice(buffer, FirstAt(buffer, THUMBNAIL_START_TOKEN),
                               FirstAt(buffer, THUMBNAIL_END_TOKEN)
                                 + Len(THUMBNAIL_END_TOKEN)))

\* ---- vocabulary of the statements about the binary header
\* the class id held by bytes 9..12 of the buffer, little-endian
ClassIdOf(buf) == <<buf[12] + 256 * buf[13], buf[10] + 256 * buf[11]>>
KnownClassIds == {m.id : m \in MapClass}
EndsWith(text, tail) ==
  /\ Len(text) >= Len(tail)
  /\ SubSeq(text, Len(text) - Len(tail) + 1, Len(text)) = tail
Displayed == shown.tag # "NotCalled"

C15_OriginAfterSuccess ==
  /\ gbx.tag = "Ok" => gbx.val.origin = [kind |-> "Buffer"]
  /\ from_file.tag = "Called" =>
       LET inner == parse_from_buffer(buffer, from_file.overflow_checks,
                                      from_file.header_ok)
           result == from_file.result
       IN /\ result.tag = "Ok" <=> (from_file.io = "ok" /\ inner.tag = "Ok")
          /\ result.tag = "Ok" =>
               /\ result.val.origin =
                    [kind |-> "File", path |-> from_file.filename]
               /\ \A f \in DOMAIN inner.val \ {"origin"} :
                    result.val[f] = inner.val[f]
          /\ from_file.io # "ok" => result = Err("IOError")
          /\ (from_file.io = "ok" /\ inner.tag # "Ok") => result = inner

C15_Witness ==
  /\ from_file.tag = "Called"
  /\ from_file.filename = "b.gbx"
  /\ from_file.result.tag = "Ok"
  /\ from_file.result.val.origin = [kind |-> "File", path |-> "b.gbx"]
  /\ gbx.tag = "Ok"
  /\ gbx.val.origin = [kind |-> "Buffer"]

\* C16 (as claimed): when both JPEG tokens occur and the first FF D9 ends
\* before the first FF D8 FF begins, parse_from_buffer checks end >= start
\* before use: it never slices buffer[start..end] with end < start.
C16_ThumbnailEndBeforeStartIsChecked ==
  (BufferParsed /\ HasMagic(buffer) /\ Len(buffer) >= 13
     /\ Occurs(buffer, THUMBNAIL_START_TOKEN)
     /\ Occurs(buffer, THUMBNAIL_END_TOKEN)
     /\ FirstAt(buffer, THUMBNAIL_END_TOKEN) + Len(THUMBNAIL_END_TOKEN)
          < FirstAt(buffer, THUMBNAIL_START_TOKEN))
    => gbx # Panic("slice ts..te start after end")

\* ---- vocabulary of the statement about the token search
Tokens == {HEADER_START_TOKEN, HEADER_END_TOKEN,
           THUMBNAIL_START_TOKEN, THUMBNAIL_END_TOKEN}
Found(buf, tok) == IF Occurs(buf, tok) THEN <<FirstAt(buf, tok)>> ELSE <<>>
OccursTwice(buf, tok) ==
  \E i, j \in 0..Len(buf) : i < j /\ MatchesAt(buf, tok, i) /\ MatchesAt(buf, tok, j)

\* C17: for each of the four tokens find_window returns Some(lowest index
\* of a byte-for-byte match) and None exactly when there is no match (a
\* buffer shorter than the token included); parse_from_buffer searches each
\* token from index 0 of the whole buffer, so the positions in its record
\* are those first occurrences whatever the other tokens' positions are.
C17_FindWindowLowestIndex ==
  /\ BufferParsed =>
       \A tok \in Tokens : find_window(buffer, tok) = Found(buffer, tok)
  /\ gbx.tag = "Ok" =>
       /\ gbx.val.header_start =
            IF Occurs(buffer, HEADER_START_TOKEN)
            THEN FirstAt(buffer, HEADER_START_TOKEN) ELSE 0
       /\ gbx.val.thumbnail_start = Found(buffer, THUMBNAIL_START_TOKEN)
       /\ (Occurs(buffer, HEADER_START_TOKEN) /\ Occurs(buffer, HEADER_END_TOKEN))
            => gbx.val.header_length =
                 FirstAt(buffer, HEADER_END_TOKEN) + Len(HEADER_END_TOKEN)
                   - FirstAt(buffer, HEADER_START_TOKEN)
       /\ (Occurs(buffer, THUMBNAIL_START_TOKEN)
             /\ Occurs(buffer, THUMBNAIL_END_TOKEN))
            => gbx.val.thumbnail_length =
                 <<FirstAt(buffer, THUMBNAIL_END_TOKEN)
                     + Len(THUMBNAIL_END_TOKEN)
                     - FirstAt(buffer, THUMBNAIL_START_TOKEN)>>

C17_Witness ==
  /\ gbx.tag = "Ok"
  /\ OccursTwice(buffer, HEADER_START_TOKEN)
  /\ Occurs(buffer, HEADER_END_TOKEN)
  /\ Len(buffer) < 13 + 2 * Len(HEADER_START_TOKEN) + Len(HEADER_END_TOKEN)
       + Len(THUMBNAIL_START_TOKEN)
  /\ gbx.val.header_start = 13
  /\ gbx.val.thumbnail_start = <<>>

\* ---- vocabulary of the statement about unknown names
ChallengeElements == {"header", "ident", "desc", "times", "deps", "dep"}
ChallengeAttributes(el) ==
  CASE el = "header" -> {"type", "version", "exever"}
    [] el = "ident" -> {"uid", "name", "author"}
    [] el = "desc" -> {"envir", "mood", "type", "nblaps", "price"}
    [] el = "times" -> {"bronze", "silver", "gold", "authortime", "authorscore"}
    [] el = "dep" -> {"file"}
    [] OTHER -> {}
UnknownElement(e) == e.kind = "StartElement" /\ e.name \notin ChallengeElements
HasUnknownAttribute(e) ==
  /\ e.kind = "StartElement"
  /\ e.name \in ChallengeElements
  /\ \E j \in 1..Len(e.attributes) :
       e.attributes[j].name \notin ChallengeAttributes(e.name)
\* the event without its unknown attributes
WithoutUnknownAttributes(e) ==
  IF e.kind # "StartElement" THEN e
  ELSE LET known(a) == a.name \in ChallengeAttributes(e.name)
       IN [e EXCEPT !.attributes = SelectSeq(e.attributes, known)]
\* the stream without its unknown elements and unknown attributes
RECURSIVE WithoutUnknown(_)
WithoutUnknown(evs) ==
  IF evs = <<>> THEN <<>>
  ELSE IF UnknownElement(Head(evs)) THEN WithoutUnknown(Tail(evs))
  ELSE <<WithoutUnknownAttributes(Head(evs))>> \o WithoutUnknown(Tail(evs))

\* C18: the Challenge decoder ignores start elements with an unknown name
\* and unknown attributes of known elements: its result, header or error,
\* is the result for the stream without them.
C18_UnknownNamesIgnored ==
  ChallengeParsed => challenge = parse_challenge_header_xml(WithoutUnknown(events))

C18_Witness ==
  /\ ChallengeParsed
  /\ \E i \in 1..Len(events) : UnknownElement(events[i])
  /\ \E i \in 1..Len(events) :
       HasUnknownAttribute(events[i]) /\ events[i].name = "header"
  /\ challenge.tag = "Ok"
  /\ challenge.val.mapversion = "TMr7"

\* C19 (as claimed): whenever parse_replay_xml returns Ok,
\* parse_challenge_header_xml on the same input returns an enum error.
C19_ReplayOkMeansChallengeEnumError ==
  (ReplayParsed /\ ChallengeParsed /\ replay.tag = "Ok")
    => (challenge.tag = "Err" /\ challenge.err.name = "HeaderTryIntoEnumError")

\* C19 (amended): the two decoders never both succeed on the same input:
\* whenever parse_replay_xml returns Ok, parse_challenge_header_xml returns
\* an error, raised at or before the header type attribute "replay": the
\* MapType enum error for that attribute, unless an earlier attribute already
\* failed with an enum or integer-value error.
C19_DecodersNeverBothSucceed ==
  (ReplayParsed /\ ChallengeParsed /\ replay.tag = "Ok") =>
    LET its == StreamItems(events)
        r == FirstIn({i \in 1..Len(its) :
                        /\ its[i].el = "header"
                        /\ its[i].name = "type"
                        /\ its[i].value = <<"r", "e", "p", "l", "a", "y">>})
        k == FirstIn({i \in 1..Len(its) : ChallengeStop(its[i])})
    IN /\ challenge.tag = "Err"
       /\ challenge.err.name \in {"HeaderTryIntoEnumError", "HeaderValueError"}
       /\ r > 0 /\ k > 0 /\ k <= r
       /\ k = r => challenge =
            Err(HeaderTryIntoEnumError(<<"U", "n", "k", "n", "o", "w", "n", " ", "m", "a", "p", " ", "t", "y", "p", "e", ":", " ", "r", "e", "p", "l", "a", "y">>))
       /\ ChallengeIntFault(its[k]) <=> challenge.err.name = "HeaderValueError"

C19_Witness ==
  /\ events = <<StartElement("header", <<Attr("type", <<"r", "e", "p", "l", "a", "y">>)>>)>>
  /\ replay.tag = "Ok"
  /\ challenge = Err(HeaderTryIntoEnumError(<<"U", "n", "k", "n", "o", "w", "n", " ", "m", "a", "p", " ", "t", "y", "p", "e", ":", " ", "r", "e", "p", "l", "a", "y">>))

====
